---- MODULE Spec2Model ----
(***************************************************************************)
(* Gaming API (src/main.py, src/schemas.py): the HTTP routes over the      *)
(* three collections game, user and leaderboardentry of a document store.  *)
(*                                                                         *)
(* Strings are TLA+ strings, so lengths and characters are the real ones.  *)
(* Optional[T] is a set with at most one element ({} is None).  A native   *)
(* identifier (ObjectId) is the number its 12 bytes spell; str() of it is  *)
(* its 24 lower-case hexadecimal characters.                                *)
(***************************************************************************)
EXTENDS Integers, Sequences, FiniteSets, TLC

VARIABLES db, game, user, leaderboardentry, resp, posted, procs

vars == <<db, game, user, leaderboardentry, resp, posted, procs>>

colls == <<game, user, leaderboardentry>>

(***************************************************************************)
(* Bounds of the model.                                                    *)
(***************************************************************************)
MaxPosts == 1
MaxUsers == 2
MaxEntries == 1
NumProcs == 2

(***************************************************************************)
(* Strings used to build the inputs.                                       *)
(***************************************************************************)
X10 == "xxxxxxxxxx"
X31 == X10 \o X10 \o X10 \o "x"
X80 == X10 \o X10 \o X10 \o X10 \o X10 \o X10 \o X10 \o X10
X81 == X80 \o "x"
X241 == X80 \o X80 \o X80 \o "x"

None == {}
Some(v) == {v}
TheValue(o) == CHOOSE v \in o : TRUE

Range(s) == {s[i] : i \in 1..Len(s)}

(***************************************************************************)
(* bson.ObjectId: is_valid, ObjectId(v) and str(oid).                      *)
(***************************************************************************)
HexDigits == "0123456789abcdef"
HexUpper == "0123456789ABCDEF"

CharAt(s, i) == SubSeq(s, i, i)

HexChar(d) == CharAt(HexDigits, d + 1)

\* the value of every hexadecimal character, upper or lower case
HexValues ==
    [c \in {CharAt(HexDigits, d + 1) : d \in 0..15} \cup {CharAt(HexUpper, d + 1) : d \in 0..15} |->
        CHOOSE d \in 0..15 : c = CharAt(HexDigits, d + 1) \/ c = CharAt(HexUpper, d + 1)]

IsHexChar(c) == c \in DOMAIN HexValues

HexVal(c) == HexValues[c]

OidLen == 24

ObjectId_is_valid(v) == Len(v) = OidLen /\ \A i \in 1..OidLen : IsHexChar(CharAt(v, i))

RECURSIVE FromHex(_, _)
FromHex(v, k) == IF k = 0 THEN 0 ELSE 16 * FromHex(v, k - 1) + HexVal(CharAt(v, k))

ObjectId(v) == FromHex(v, OidLen)

\* the leading zeros of a rendered identifier
Zeros == "000000000000000000000000"

RECURSIVE ToHex(_, _)
ToHex(n, width) ==
    IF width = 0 THEN ""
    ELSE IF n = 0 THEN SubSeq(Zeros, 1, width)
    ELSE ToHex(n \div 16, width - 1) \o HexChar(n % 16)

str(oid) == ToHex(oid, OidLen)

\* PyObjectId.validate(v) for a string v: the parsed id, or ValueError
PyObjectId_validate(v) ==
    IF ~ObjectId_is_valid(v) THEN [raised |-> TRUE, value |-> 0]
    ELSE [raised |-> FALSE, value |-> ObjectId(v)]

(***************************************************************************)
(* serialize_doc: the document with its _id rendered as a string.          *)
(***************************************************************************)
serialize_doc(doc) == [doc EXCEPT !._id = str(doc._id)]

serialize_all(docs) == [i \in 1..Len(docs) |-> serialize_doc(docs[i])]

(***************************************************************************)
(* The document store behind the handle db: a collection is the sequence   *)
(* of its documents in insertion (natural) order.                          *)
(***************************************************************************)
GameBase == 160
UserBase == 176
EntryBase == 192

\* insert_one: the store assigns a fresh _id and appends the document
insert_one(coll, base, data) == Append(coll, [_id |-> base + Len(coll) + 1] @@ data)

inserted_id(coll, base) == base + Len(coll) + 1

\* create_document(collection, data): inserts and returns str(inserted_id)
create_document(coll, base, data) ==
    [coll |-> insert_one(coll, base, data), _id |-> str(inserted_id(coll, base))]

\* the filter {} that every document matches
NoFilter == <<>>

\* find(filt): the documents equal to filt on its fields, in natural order
find(coll, filt) ==
    LET Match(d) == \A k \in DOMAIN filt : d[k] = filt[k] IN SelectSeq(coll, Match)

\* find_one(filt): the first matching document or None
find_one(coll, filt) ==
    LET hits == find(coll, filt) IN IF hits = <<>> THEN None ELSE Some(Head(hits))

count_documents(coll) == Len(coll)

\* get_documents(collection, filt): the list of the matching documents
get_documents(coll, filt) == find(coll, filt)

\* cursor.sort("score", -1): some descending order of the documents; the
\* order of equal scores is the store's choice
sort_desc(docs) ==
    {[i \in 1..Len(docs) |-> docs[p[i]]] : p \in
        {q \in Permutations(1..Len(docs)) :
            \A i, j \in 1..Len(docs) : i < j => docs[q[i]].score >= docs[q[j]].score}}

\* cursor.limit(n): a limit of 0 is no limit
cursor_limit(docs, n) ==
    IF n = 0 \/ n >= Len(docs) THEN docs ELSE SubSeq(docs, 1, n)

\* db.list_collection_names(): the collections that hold documents
list_collection_names(g, u, l) ==
    (IF g # <<>> THEN <<"game">> ELSE <<>>) \o (IF u # <<>> THEN <<"user">> ELSE <<>>)
        \o (IF l # <<>> THEN <<"leaderboardentry">> ELSE <<>>)

(***************************************************************************)
(* Request validation (schemas.py and the request models of main.py).      *)
(***************************************************************************)
Categories == {"Puzzle", "Adventure", "Action", "Kids Learning"}

HasPrefix(s, p) == Len(s) >= Len(p) /\ SubSeq(s, 1, Len(p)) = p

\* HttpUrl: scheme http or https followed by a host
IsHttpUrl(s) ==
    \/ HasPrefix(s, "http://") /\ Len(s) > Len("http://")
    \/ HasPrefix(s, "https://") /\ Len(s) > Len("https://")

TitleMin == 2
TitleMax == 80
DescriptionMin == 10
DescriptionMax == 240
UsernameMin == 2
UsernameMax == 30

GameValid(p) ==
    /\ Len(p.title) >= TitleMin /\ Len(p.title) <= TitleMax
    /\ Len(p.description) >= DescriptionMin /\ Len(p.description) <= DescriptionMax
    /\ p.category \in Categories
    /\ \A t \in p.thumbnail : IsHttpUrl(t)
    /\ p.plays >= 0

UserValid(p) ==
    /\ Len(p.username) >= UsernameMin /\ Len(p.username) <= UsernameMax
    /\ \A a \in p.avatar_url : IsHttpUrl(a)

\* CreateUserRequest: username: str, avatar_url: Optional[str]; no constraint
CreateUserRequestValid(p) == TRUE

\* SubmitScoreRequest: user_id: str, username: str, score: int; no constraint
SubmitScoreRequestValid(p) == TRUE

(***************************************************************************)
(* The inputs of the requests.                                             *)
(***************************************************************************)
NeonBlocks ==
    [title |-> "Neon Blocks", description |-> "Stack and align glowing blocks in this chill puzzle.",
     category |-> "Puzzle", thumbnail |-> None, plays |-> 0]

samples ==
    << NeonBlocks,
       [title |-> "Cyber Runner", description |-> "Dash through a synth city, dodge obstacles, collect cores.",
        category |-> "Adventure", thumbnail |-> None, plays |-> 0],
       [title |-> "Pulse Shooter", description |-> "Arcade action with rhythmic enemy waves and power-ups.",
        category |-> "Action", thumbnail |-> None, plays |-> 0],
       [title |-> "ABC Quest", description |-> "Learn letters and sounds with friendly characters.",
        category |-> "Kids Learning", thumbnail |-> None, plays |-> 0] >>

GamePayloads ==
    { NeonBlocks,
      [NeonBlocks EXCEPT !.title = "Star Hop", !.category = "Action",
                         !.thumbnail = Some("https://img.io/s.png"), !.plays = 3],
      [NeonBlocks EXCEPT !.title = "N"],
      [NeonBlocks EXCEPT !.title = X81],
      [NeonBlocks EXCEPT !.description = X241],
      [NeonBlocks EXCEPT !.category = "Racing"],
      [NeonBlocks EXCEPT !.thumbnail = Some("not a url")],
      [NeonBlocks EXCEPT !.plays = -1] }

CategoryFilters == {None, Some("Puzzle")}

Usernames == {"A", "Ann", X31}

UserPayloads == {[username |-> u, avatar_url |-> None] : u \in Usernames}

UserIdInputs ==
    {"not-an-id", "zzzzzzzzzzzzzzzzzzzzzzzz", str(UserBase + 1), "0000000000000000000000B2"}

ScorePayload(s) == [user_id |-> "u1", username |-> "Ann", score |-> s]

\* the submissions: a game id and a body
ScoreInputs ==
    { [game_id |-> "g1", payload |-> ScorePayload(-1)],
      [game_id |-> "g1", payload |-> ScorePayload(7)],
      [game_id |-> "g1", payload |-> ScorePayload(42)],
      [game_id |-> "g2", payload |-> ScorePayload(7)] }

\* the leaderboard queries: a game id and a limit (10 is the default)
LeaderboardInputs ==
    { [game_id |-> "g1", limit |-> 0],
      [game_id |-> "g1", limit |-> 1],
      [game_id |-> "g1", limit |-> 10],
      [game_id |-> "g2", limit |-> 1] }

(***************************************************************************)
(* Responses.  resp is the last request served with its status and body.   *)
(* posted records, for every POST /api/games answered 200, the _id the     *)
(* client was given and the payload it sent.                               *)
(***************************************************************************)
Resp(op, req, status, body) == [op |-> op, req |-> req, status |-> status, body |-> body]

NoReq == [none |-> TRUE]

NotConfigured == [detail |-> "Database not configured"]

\* an exception no handler catches: the framework answers 500
InternalServerError == "Internal Server Error"

\* a request body the framework rejects before the handler runs
Unprocessable == [detail |-> "validation error"]

Idle == [pc |-> "idle"]

Procs == 1..NumProcs

Init ==
    /\ db \in BOOLEAN
    /\ game = <<>>
    /\ user = <<>>
    /\ leaderboardentry = <<>>
    /\ resp = Resp("none", NoReq, 0, NoReq)
    /\ posted = {}
    /\ procs = [p \in Procs |-> Idle]

(***************************************************************************)
(* The decisions of the handlers.                                          *)
(***************************************************************************)
\* the check inverted: if db is not None
db_is_None_inverted(handle) == handle

\* if db is None
db_is_None(handle) == ~handle

\* the filter always built: filt = {"category": category or ""}
list_filter_always(category) == [category |-> IF category # None THEN TheValue(category) ELSE ""]

\* filt = {"category": category} if category else {}
list_filter(category) ==
    IF category # None /\ TheValue(category) # "" THEN [category |-> TheValue(category)] ELSE NoFilter

\* the lookup result ignored
user_exists_ignored(existing) == FALSE

\* if existing
user_exists(existing) == existing # None

\* the bound off by one: if payload.score < -1
score_is_negative_off_by_one(payload) == payload.score < -1

\* if payload.score < 0
score_is_negative(payload) == payload.score < 0

\* the count compared with the number of samples instead of 0
already_seeded_full(coll) == count_documents(coll) > Len(samples)

\* if db["game"].count_documents({}) > 0
already_seeded(coll) == count_documents(coll) > 0

\* an upsert: the existing document is replaced by a fresh one
create_user_result_replacing(coll, payload) ==
    LET OtherName(d) == d.username # payload.username
        r == create_document(SelectSeq(coll, OtherName), UserBase, payload)
    IN [coll |-> r.coll, status |-> 200, body |-> serialize_doc(r.coll[Len(r.coll)])]

\* create_user past the db check: the collection after it and the answer
create_user_result(coll, payload) ==
    LET existing == find_one(coll, [username |-> payload.username])
        r == create_document(coll, UserBase, payload)
        created == find_one(r.coll, [_id |-> ObjectId(r._id)])
    IN IF user_exists(existing)
       THEN [coll |-> coll, status |-> 200, body |-> serialize_doc(TheValue(existing))]
       ELSE [coll |-> r.coll, status |-> 200, body |-> serialize_doc(TheValue(created))]

\* the loop over samples: the collection and the ids after samples[1..n]
RECURSIVE seed_insert(_, _)
seed_insert(coll, n) ==
    IF n = 0 THEN [coll |-> coll, ids |-> <<>>]
    ELSE LET before == seed_insert(coll, n - 1)
             r == create_document(before.coll, GameBase, samples[n])
         IN [coll |-> r.coll, ids |-> Append(before.ids, r._id)]

(***************************************************************************)
(* The routes, each handler served as one step.                            *)
(***************************************************************************)
root ==
    /\ resp' = Resp("root", NoReq, 200, [message |-> "Gaming API is running"])
    /\ UNCHANGED <<db, game, user, leaderboardentry, posted, procs>>

list_games(category) ==
    /\ resp' = IF db_is_None(db) THEN Resp("list_games", [category |-> category], 500, NotConfigured)
               ELSE LET docs == get_documents(game, list_filter(category))
                    IN Resp("list_games", [category |-> category], 200, serialize_all(docs))
    /\ UNCHANGED <<db, game, user, leaderboardentry, posted, procs>>

create_game(p) ==
    /\ IF ~GameValid(p)
       THEN /\ resp' = Resp("create_game", p, 422, Unprocessable)
            /\ UNCHANGED <<game, posted>>
       ELSE IF db_is_None(db)
       THEN /\ resp' = Resp("create_game", p, 500, NotConfigured)
            /\ UNCHANGED <<game, posted>>
       ELSE LET r == create_document(game, GameBase, p)
            IN /\ Cardinality(posted) < MaxPosts
               /\ game' = r.coll
               /\ resp' = Resp("create_game", p, 200, [_id |-> r._id])
               /\ posted' = posted \cup {[_id |-> r._id, payload |-> p]}
    /\ UNCHANGED <<db, user, leaderboardentry, procs>>

create_user(payload) ==
    /\ IF ~CreateUserRequestValid(payload)
       THEN /\ resp' = Resp("create_user", payload, 422, Unprocessable)
            /\ UNCHANGED user
       ELSE IF db_is_None(db)
       THEN /\ resp' = Resp("create_user", payload, 500, NotConfigured)
            /\ UNCHANGED user
       ELSE LET r == create_user_result(user, payload)
            IN /\ Len(r.coll) <= MaxUsers
               /\ user' = r.coll
               /\ resp' = Resp("create_user", payload, r.status, r.body)
    /\ UNCHANGED <<db, game, leaderboardentry, posted, procs>>

get_user(user_id) ==
    /\ resp' = IF db_is_None(db) THEN Resp("get_user", [user_id |-> user_id], 500, NotConfigured)
               ELSE LET oid == PyObjectId_validate(user_id)
                        found == find_one(user, [_id |-> oid.value])
                    IN IF oid.raised
                       THEN Resp("get_user", [user_id |-> user_id], 500, InternalServerError)
                       ELSE IF found = None
                       THEN Resp("get_user", [user_id |-> user_id], 404, [detail |-> "User not found"])
                       ELSE Resp("get_user", [user_id |-> user_id], 200, serialize_doc(TheValue(found)))
    /\ UNCHANGED <<db, game, user, leaderboardentry, posted, procs>>

get_leaderboard(game_id, limit) ==
    /\ IF db_is_None(db)
       THEN resp' = Resp("get_leaderboard", [game_id |-> game_id, limit |-> limit], 500, NotConfigured)
       ELSE \E sorted \in sort_desc(find(leaderboardentry, [game_id |-> game_id])) :
                  resp' = Resp("get_leaderboard", [game_id |-> game_id, limit |-> limit], 200,
                               serialize_all(cursor_limit(sorted, limit)))
    /\ UNCHANGED <<db, game, user, leaderboardentry, posted, procs>>

submit_score(game_id, payload) ==
    /\ LET req == [game_id |-> game_id, payload |-> payload]
       IN IF ~SubmitScoreRequestValid(payload)
          THEN /\ resp' = Resp("submit_score", req, 422, Unprocessable)
               /\ UNCHANGED leaderboardentry
          ELSE IF db_is_None(db)
          THEN /\ resp' = Resp("submit_score", req, 500, NotConfigured)
               /\ UNCHANGED leaderboardentry
          ELSE IF score_is_negative(payload)
          THEN /\ resp' = Resp("submit_score", req, 400, [detail |-> "Score must be non-negative"])
               /\ UNCHANGED leaderboardentry
          ELSE LET data == [game_id |-> game_id, user_id |-> payload.user_id,
                            username |-> payload.username, score |-> payload.score]
                   r == create_document(leaderboardentry, EntryBase, data)
               IN /\ Len(leaderboardentry) < MaxEntries
                  /\ leaderboardentry' = r.coll
                  /\ resp' = Resp("submit_score", req, 200, [_id |-> r._id])
    /\ UNCHANGED <<db, game, user, posted, procs>>

\* storeFails: db.list_collection_names() raises, which the handler catches
test_database(storeFails) ==
    /\ resp' = Resp("test_database", NoReq, 200,
                    IF db_is_None(db) THEN [database |-> "Available but not initialized", collections |-> <<>>]
                    ELSE IF storeFails THEN [database |-> "Connected but Error", collections |-> <<>>]
                    ELSE [database |-> "Connected & Working",
                          collections |-> list_collection_names(game, user, leaderboardentry)])
    /\ UNCHANGED <<db, game, user, leaderboardentry, posted, procs>>

seed_games ==
    /\ IF db_is_None(db)
       THEN /\ resp' = Resp("seed_games", NoReq, 500, NotConfigured)
            /\ UNCHANGED game
       ELSE IF already_seeded(game)
       THEN /\ resp' = Resp("seed_games", NoReq, 200, [status |-> "ok", message |-> "Games already seeded"])
            /\ UNCHANGED game
       ELSE LET r == seed_insert(game, Len(samples))
            IN /\ game' = r.coll
               /\ resp' = Resp("seed_games", NoReq, 200, [inserted |-> r.ids])
    /\ UNCHANGED <<db, user, leaderboardentry, posted, procs>>

Next ==
    \/ root
    \/ \E category \in CategoryFilters : list_games(category)
    \/ \E p \in GamePayloads : create_game(p)
    \/ \E payload \in UserPayloads : create_user(payload)
    \/ \E user_id \in UserIdInputs : get_user(user_id)
    \/ \E q \in LeaderboardInputs : get_leaderboard(q.game_id, q.limit)
    \/ \E s \in ScoreInputs : submit_score(s.game_id, s.payload)
    \/ \E storeFails \in BOOLEAN : test_database(storeFails)
    \/ seed_games

Spec == Init /\ [][Next]_vars

(***************************************************************************)
(* The user collections a sequence of requests may start from: the store   *)
(* outlives the process, and nothing in it keeps usernames distinct.       *)
(***************************************************************************)
UserStartStates ==
    UNION {{[i \in 1..n |-> [_id |-> UserBase + i, username |-> names[i], avatar_url |-> None]] :
                names \in [1..n -> Usernames]} : n \in 0..MaxUsers}

InitAnyUsers ==
    /\ db \in BOOLEAN
    /\ game = <<>>
    /\ user \in UserStartStates
    /\ leaderboardentry = <<>>
    /\ resp = Resp("none", NoReq, 0, NoReq)
    /\ posted = {}
    /\ procs = [p \in Procs |-> Idle]

\* the two routes over the user collection
UsersNext ==
    \/ \E payload \in UserPayloads : create_user(payload)
    \/ \E user_id \in UserIdInputs : get_user(user_id)

SpecAnyUsers == InitAnyUsers /\ [][UsersNext]_vars

(***************************************************************************)
(* POST /api/users served concurrently: the server runs the handlers of    *)
(* concurrent requests independently, and each store call of create_user   *)
(* (find_one by username, the insert, find_one by _id) is one atomic step. *)
(***************************************************************************)
InFlight == Cardinality({p \in Procs : procs[p].pc # "idle"})

\* the request arrives: body validation and the db check
cu_begin(p, payload) ==
    /\ procs[p].pc = "idle"
    /\ IF ~CreateUserRequestValid(payload)
       THEN /\ resp' = Resp("create_user", payload, 422, Unprocessable)
            /\ UNCHANGED procs
       ELSE IF db_is_None(db)
       THEN /\ resp' = Resp("create_user", payload, 500, NotConfigured)
            /\ UNCHANGED procs
       ELSE /\ Len(user) + InFlight < MaxUsers
            /\ procs' = [procs EXCEPT ![p] = [pc |-> "find_one", payload |-> payload]]
            /\ UNCHANGED resp
    /\ UNCHANGED <<db, game, user, leaderboardentry, posted>>

\* existing = db["user"].find_one({"username": payload.username})
cu_find_one(p) ==
    /\ procs[p].pc = "find_one"
    /\ LET payload == procs[p].payload
           existing == find_one(user, [username |-> payload.username])
       IN IF user_exists(existing)
          THEN /\ resp' = Resp("create_user", payload, 200, serialize_doc(TheValue(existing)))
               /\ procs' = [procs EXCEPT ![p] = Idle]
          ELSE /\ procs' = [procs EXCEPT ![p] = [pc |-> "insert", payload |-> payload]]
               /\ UNCHANGED resp
    /\ UNCHANGED <<db, game, user, leaderboardentry, posted>>

\* _id = create_document("user", payload.model_dump())
cu_insert(p) ==
    /\ procs[p].pc = "insert"
    /\ LET r == create_document(user, UserBase, procs[p].payload)
       IN /\ user' = r.coll
          /\ procs' = [procs EXCEPT ![p] = [pc |-> "refetch", payload |-> procs[p].payload, _id |-> r._id]]
    /\ UNCHANGED <<db, game, leaderboardentry, resp, posted>>

\* created = db["user"].find_one({"_id": ObjectId(_id)})
cu_refetch(p) ==
    /\ procs[p].pc = "refetch"
    /\ LET created == find_one(user, [_id |-> ObjectId(procs[p]._id)])
       IN resp' = Resp("create_user", procs[p].payload, 200, serialize_doc(TheValue(created)))
    /\ procs' = [procs EXCEPT ![p] = Idle]
    /\ UNCHANGED <<db, game, user, leaderboardentry, posted>>

ConcNext ==
    \/ \E p \in Procs, payload \in UserPayloads : cu_begin(p, payload)
    \/ \E p \in Procs : cu_find_one(p)
    \/ \E p \in Procs : cu_insert(p)
    \/ \E p \in Procs : cu_refetch(p)

ConcSpec == Init /\ [][ConcNext]_vars

(***************************************************************************)
(* Properties.                                                             *)
(***************************************************************************)
CountByName(coll, u) == Cardinality({i \in 1..Len(coll) : coll[i].username = u})

Kept(before, after) == \A d \in Range(before) : d \in Range(after)

NonIncreasing(entries) ==
    \A i, j \in 1..Len(entries) : i < j => entries[i].score >= entries[j].score

DataOps ==
    {"list_games", "create_game", "create_user", "get_user", "get_leaderboard", "submit_score", "seed_games"}

ReadOps == {"root", "list_games", "get_user", "get_leaderboard", "test_database"}

AlreadySeeded == [status |-> "ok", message |-> "Games already seeded"]

\* C1: with the store handle present, GET /api/users/{id} with an id that is
\* not a well-formed native identifier is answered 400 (not 500, not 200).
C1_InvalidIdIs400 ==
    (db /\ resp.op = "get_user" /\ ~ObjectId_is_valid(resp.req.user_id)) => resp.status = 400

\* C2: a POST /api/users that directly follows a served POST /api/users with
\* the same username returns the same _id as the first and inserts nothing:
\* the number of documents with that username stays what the first call left.
C2_SecondPostSameUser ==
    [][(/\ db
        /\ resp.op = "create_user" /\ resp.status = 200
        /\ resp'.op = "create_user" /\ resp'.req.username = resp.req.username)
       => (/\ resp'.status = 200
           /\ resp'.body._id = resp.body._id
           /\ resp'.body.username = resp.req.username
           /\ CountByName(user', resp.req.username) = CountByName(user, resp.req.username)
           /\ user' = user)]_vars

\* C2 witness: a POST /api/users was answered with a document that is not
\* the newest of the collection, that is, with one found rather than inserted
C2_Witness ==
    /\ db /\ resp.op = "create_user" /\ resp.status = 200
    /\ Len(user) >= 2 /\ resp.body._id = str(user[1]._id)
    /\ user[2].username = user[1].username

\* C3: under every interleaving of concurrent POST /api/users requests the
\* user collection holds at most one document per username.
C3_OneDocumentPerUsername ==
    \A i, j \in 1..Len(user) : user[i].username = user[j].username => i = j

\* C4: GET /api/leaderboard/{g}?limit=N with N >= 0 returns at most N
\* entries, in non-increasing order of score.
C4_AtMostLimitSorted ==
    (db /\ resp.op = "get_leaderboard" /\ resp.status = 200 /\ resp.req.limit >= 0)
        => (Len(resp.body) <= resp.req.limit /\ NonIncreasing(resp.body))

\* C5: POST /api/seed on an empty game collection inserts the 4 samples and
\* returns their 4 ids; a second POST /api/seed right after it inserts
\* nothing and reports that the games are already seeded: 4 documents, not 8.
C5_SeedTwice ==
    [][/\ (db /\ game = <<>> /\ resp'.op = "seed_games")
            => (/\ Len(game') = 4
                /\ resp'.status = 200
                /\ resp'.body = [inserted |-> [i \in 1..4 |-> str(game'[i]._id)]]
                /\ \A i \in 1..4 : [f \in DOMAIN samples[i] |-> game'[i][f]] = samples[i])
       /\ (db /\ resp.op = "seed_games" /\ resp.status = 200 /\ resp.body # AlreadySeeded
              /\ resp'.op = "seed_games")
            => (/\ resp'.status = 200
                /\ resp'.body = AlreadySeeded
                /\ game' = game
                /\ Len(game') = 4)]_vars

\* C5 witness: the second seed was answered "already seeded" over exactly the
\* 4 seeded documents
C5_Witness ==
    /\ db /\ resp.op = "seed_games" /\ resp.body = AlreadySeeded
    /\ Len(game) = 4 /\ posted = {}

\* C6: POST /api/leaderboard/{g} with a negative score is answered 400 and
\* leaves the leaderboardentry collection unchanged; every stored entry has
\* a score >= 0.
C6_NegativeScoreRejected ==
    [][/\ (db /\ resp'.op = "submit_score" /\ resp'.req.payload.score < 0)
            => (resp'.status = 400 /\ leaderboardentry' = leaderboardentry)
       /\ \A i \in 1..Len(leaderboardentry') : leaderboardentry'[i].score >= 0]_vars

\* C6 witness: a negative score was answered 400 while entries are stored
C6_Witness ==
    /\ db /\ resp.op = "submit_score" /\ resp.req.payload.score < 0 /\ resp.status = 400
    /\ Len(leaderboardentry) > 0

\* C7: every document of the user collection has a username of 2 to 30
\* characters (POST /api/users validates against User before inserting).
C7_StoredUsernamesValid ==
    \A i \in 1..Len(user) : UserValid(user[i])

C9_PostedGamesListed ==
    /\ \A g \in posted : g._id # "" /\ Len(g._id) = OidLen
    /\ (db /\ resp.op = "list_games" /\ resp.req.category = None /\ resp.status = 200)
        => \A g \in posted : \E i \in 1..Len(resp.body) :
              /\ resp.body[i]._id = g._id
              /\ resp.body[i].title = g.payload.title
              /\ resp.body[i].description = g.payload.description
              /\ resp.body[i].category = g.payload.category
              /\ resp.body[i].thumbnail = g.payload.thumbnail
              /\ resp.body[i].plays = g.payload.plays

\* C9 witness: the unfiltered list was served with a game created by POST
\* after the seeded ones
C9_Witness ==
    /\ db /\ resp.op = "list_games" /\ resp.req.category = None /\ resp.status = 200
    /\ posted # {} /\ Len(game) > Cardinality(posted)

====
